---- MODULE Spec2Model ----
(***************************************************************************)
(* A model of generate_qt_mappings.py: the scan of a Qt include tree, the  *)
(* derivation of symbol and include mappings, and their serialization to   *)
(* the .imp format.  Strings are TLA+ strings, handled character by        *)
(* character (Len, SubSeq, \o); a file's content is the sequence of its    *)
(* lines, each line standing for its characters followed by a newline.     *)
(***************************************************************************)
EXTENDS Integers, Sequences, FiniteSets, TLC

VARIABLES tree, out, prev, run, pc, headers, idx,
          symbols_map, includes_map, sym_src, inc_src, deferred_headers,
          private, reads, ret, lines

vars == <<tree, out, prev, run, pc, headers, idx,
          symbols_map, includes_map, sym_src, inc_src, deferred_headers,
          private, reads, ret, lines>>

(***************************************************************************)
(* Bounds of the model.                                                    *)
(***************************************************************************)
\* number of entries of the scanned tree in the initial state
MaxFiles == 2
\* number of successive invocations of main
MaxRuns == 2
\* length of each rule list handed to build_imp_lines on its own
MaxRules == 2

(***************************************************************************)
(* Strings.                                                                *)
(***************************************************************************)
\* An optional value: None, or Some(v)
None == <<>>

Some(v) == <<v>>

Ch(s, i) == SubSeq(s, i, i)

StartsAt(s, i, t) == i >= 1 /\ i + Len(t) - 1 =< Len(s) /\ SubSeq(s, i, i + Len(t) - 1) = t

EndsWith(s, t) == Len(t) =< Len(s) /\ SubSeq(s, Len(s) - Len(t) + 1, Len(s)) = t

\* positions at which t occurs in s
Occurrences(s, t) == {i \in 1..Len(s) : StartsAt(s, i, t)}

Min(S) == CHOOSE x \in S : \A y \in S : x =< y

Max(S) == CHOOSE x \in S : \A y \in S : x >= y

RECURSIVE Count(_, _)
Count(seq, x) ==
    IF seq = <<>> THEN 0
    ELSE (IF Head(seq) = x THEN 1 ELSE 0) + Count(Tail(seq), x)

Range(seq) == {seq[i] : i \in 1..Len(seq)}

(***************************************************************************)
(* The file system: the sequence of its entries, in the order in which a   *)
(* directory listing returns them.  An entry has the directory it lives    *)
(* in, its name, its kind, its lines, and whether it can be opened for     *)
(* reading.                                                                *)
(***************************************************************************)
\* os.path.join(a, b), for a relative b
PathJoin(a, b) == a \o "/" \o b

\* os.path.basename(p): what follows the last slash
Basename(p) ==
    LET sl == Occurrences(p, "/")
    IN  IF sl = {} THEN p ELSE SubSeq(p, Max(sl) + 1, Len(p))

\* os.path.dirname(p): what precedes the last slash
Dirname(p) ==
    LET sl == Occurrences(p, "/")
    IN  IF sl = {} THEN "" ELSE SubSeq(p, 1, Max(sl) - 1)

PathOf(e) == PathJoin(e.dir, e.name)

Exists(t, p) == \E i \in 1..Len(t) : PathOf(t[i]) = p

EntryAt(t, p) == t[CHOOSE i \in 1..Len(t) : PathOf(t[i]) = p]

\* os.path.isdir(p)
IsDir(t, p) == Exists(t, p) /\ EntryAt(t, p).kind = "dir"

\* a directory exists when it is the working directory, holds an entry, or is an entry
DirExists(t, d) ==
    \/ d = "out"
    \/ \E i \in 1..Len(t) : t[i].dir = d
    \/ IsDir(t, d)

\* the content of the file at p: None when there is no such entry
Content(t, p) ==
    IF Exists(t, p) THEN Some([kind |-> EntryAt(t, p).kind, text |-> EntryAt(t, p).text]) ELSE None

(***************************************************************************)
(* glob.glob(os.path.join(qt_include_dir, '**/*[!.h]')), not recursive:    *)
(* '**' is '*', one directory level; '*' matches no leading dot; '[!.h]'   *)
(* is one character that is neither '.' nor 'h'.                           *)
(***************************************************************************)
IsHidden(name) == StartsAt(name, 1, ".")

\* fnmatch.fnmatch(name, '*[!.h]') on POSIX
FnmatchNotDotH(name) ==
    /\ Len(name) >= 1
    /\ Ch(name, Len(name)) \notin {".", "h"}

\* fnmatch.fnmatch(name, '**'), and the listed entry is a directory of root
IsModuleDir(root, d) ==
    /\ Dirname(d) = root
    /\ Len(Basename(d)) >= 1
    /\ ~IsHidden(Basename(d))

GlobMatches(root, e) ==
    /\ IsModuleDir(root, e.dir)
    /\ ~IsHidden(e.name)
    /\ FnmatchNotDotH(e.name)

RECURSIVE Glob(_, _)
Glob(root, t) ==
    IF t = <<>> THEN <<>>
    ELSE (IF GlobMatches(root, Head(t)) THEN <<PathOf(Head(t))>> ELSE <<>>) \o Glob(root, Tail(t))

(***************************************************************************)
(* class QtHeader                                                          *)
(***************************************************************************)
classname(h) == Basename(h)

modulename(h) == Basename(Dirname(h))

\* re.findall(r'#include "(.*)\.h"', line) on one line: '.' matches no newline and
\* '.*' is greedy, so the match runs from the first '#include "' to the last '.h"'
FindLine(line) ==
    LET starts == Occurrences(line, "#include \"")
        ends   == Occurrences(line, ".h\"")
    IN  IF starts = {} THEN <<>>
        ELSE LET p == Min(starts) + Len("#include \"")
                 q == {e \in ends : e >= p}
             IN  IF q = {} THEN <<>> ELSE <<SubSeq(line, p, Max(q) - 1)>>

RECURSIVE FindAll(_)
FindAll(text) == IF text = <<>> THEN <<>> ELSE FindLine(Head(text)) \o FindAll(Tail(text))

\* open(self.headername, 'r') succeeds
Readable(t, h) == Exists(t, h) /\ EntryAt(t, h).kind = "file" /\ EntryAt(t, h).ok

\* two faulty variants of get_private_headers: one that never looks at the cache,
\* one that swallows the error of a file it cannot open
GetPrivateHeadersUncached(h, priv, rd, t) ==
    IF Readable(t, h)
    THEN LET included == FindAll(EntryAt(t, h).text)
         IN  [raised |-> FALSE, val |-> included,
              priv |-> [priv EXCEPT ![h] = Some(included)], rd |-> [rd EXCEPT ![h] = @ + 1]]
    ELSE [raised |-> TRUE, val |-> <<>>, priv |-> priv, rd |-> rd]

GetPrivateHeadersSwallow(h, priv, rd, t) ==
    IF priv[h] = None
    THEN IF Readable(t, h)
         THEN GetPrivateHeadersUncached(h, priv, rd, t)
         ELSE [raised |-> FALSE, val |-> <<>>, priv |-> [priv EXCEPT ![h] = Some(<<>>)], rd |-> rd]
    ELSE [raised |-> FALSE, val |-> priv[h][1], priv |-> priv, rd |-> rd]

\* QtHeader.get_private_headers: the list returned or the exception raised, and the
\* instance's _private_headers and the file's read count after the call
GetPrivateHeaders(h, priv, rd, t) ==
    IF priv[h] = None
    THEN IF Readable(t, h)
         THEN LET included == FindAll(EntryAt(t, h).text)
              IN  [raised |-> FALSE, val |-> included,
                   priv |-> [priv EXCEPT ![h] = Some(included)], rd |-> [rd EXCEPT ![h] = @ + 1]]
         ELSE [raised |-> TRUE, val |-> <<>>, priv |-> priv, rd |-> rd]
    ELSE [raised |-> FALSE, val |-> priv[h][1], priv |-> priv, rd |-> rd]

(***************************************************************************)
(* The constants of the script.                                            *)
(***************************************************************************)
OUTFILEHDR == "# Do not edit! This file was generated by the script generate_qt_mappings.py."

QOBJECT_SYMBOLS ==
    <<"QObjectList", "qFindChildren", "qobject_cast", "QT_NO_NARROWING_CONVERSIONS_IN_CONNECT",
      "Q_CLASSINFO", "Q_DISABLE_COPY", "Q_DISABLE_COPY_MOVE", "Q_DISABLE_MOVE",
      "Q_EMIT", "Q_ENUM", "Q_ENUM_NS", "Q_FLAG",
      "Q_FLAG_NS", "Q_GADGET", "Q_INTERFACES", "Q_INVOKABLE",
      "Q_NAMESPACE", "Q_NAMESPACE_EXPORT", "Q_OBJECT", "Q_PROPERTY",
      "Q_REVISION", "Q_SET_OBJECT_NAME", "Q_SIGNAL", "Q_SIGNALS",
      "Q_SLOT", "Q_SLOTS", "emit", "slots",
      "signals", "SIGNAL", "SLOT">>

(***************************************************************************)
(* build_imp_lines                                                         *)
(***************************************************************************)
\* json.dumps of one character of a string
EscapeChar(c) ==
    CASE c = "\"" -> "\\\""
      [] c = "\\" -> "\\\\"
      [] c = "\n" -> "\\n"
      [] c = "\t" -> "\\t"
      [] OTHER    -> c

\* the characters json.dumps writes as an escape
Escaped == {"\"", "\\", "\n", "\t"}

\* json.dumps of the characters of a string: the stretch up to the first escaped
\* character is copied as it is
RECURSIVE Escape(_)
Escape(s) ==
    LET special == {i \in 1..Len(s) : Ch(s, i) \in Escaped}
    IN  IF special = {} THEN s
        ELSE LET p == Min(special)
             IN  SubSeq(s, 1, p - 1) \o EscapeChar(Ch(s, p)) \o Escape(SubSeq(s, p + 1, Len(s)))

\* a faulty variant of JsonString: the string between quotes, unescaped
JsonStringRaw(s) == "\"" \o s \o "\""

\* json.dumps(s) for a string s
JsonString(s) == "\"" \o Escape(s) \o "\""

RECURSIVE JoinStr(_, _)
JoinStr(sep, seq) ==
    IF seq = <<>> THEN ""
    ELSE IF Len(seq) = 1 THEN seq[1]
    ELSE seq[1] \o sep \o JoinStr(sep, Tail(seq))

JsonPrivate == JsonString("private")

JsonPublic == JsonString("public")

\* jsonline(mapping) for a mapping {key: [a, "private", b, "public"]}
jsonline(key, a, b) ==
    "  " \o "{" \o JsonString(key) \o ": ["
         \o JoinStr(", ", <<JsonString(a), JsonPrivate, JsonString(b), JsonPublic>>)
         \o "]}"

SymbolLine(rule) == jsonline("symbol", rule[1], "<" \o rule[2] \o ">")

\* map_from = r'@["<](%s/)?%s\.h[">]' % (module, include)
MapFrom(module, include) == "@[\"<](" \o module \o "/)?" \o include \o "\\.h[\">]"

IncludeLine(rule) == jsonline("include", MapFrom(rule[1], rule[2]), "<" \o rule[3] \o ">")

\* the lines of "[\n" + ",\n".join(root) + "\n]\n"
JoinedLines(root) ==
    IF root = <<>> THEN <<"[", "", "]">>
    ELSE <<"[">> \o [i \in 1..Len(root) |-> IF i < Len(root) THEN root[i] \o "," ELSE root[i]] \o <<"]">>

build_imp_lines(smap, imap) ==
    JoinedLines([i \in 1..Len(smap) |-> SymbolLine(smap[i])]
                \o [i \in 1..Len(imap) |-> IncludeLine(imap[i])])

\* what print(OUTFILEHDR) and print(lines) put in the file: print ends lines, which
\* already ends in a newline, with one more
Printed(ls) == <<OUTFILEHDR>> \o ls \o <<"">>

(***************************************************************************)
(* The inputs: the trees main is run on and the output paths it is given.  *)
(***************************************************************************)
\* the qt_include_dir argument
RootDir == "qt"

File(d, n, text, ok) == [dir |-> d, name |-> n, kind |-> "file", text |-> text, ok |-> ok]

Directory(d, n) == [dir |-> d, name |-> n, kind |-> "dir", text |-> <<>>, ok |-> FALSE]

EntryPool ==
    { File("qt/QtCore", "Qt", <<"#include \"qnamespace.h\"">>, TRUE),
      File("qt/QtCore", "Qt", <<"#include \"qnamespace.h\"">>, FALSE),
      File("qt/QInternal", "Qt", <<>>, TRUE),
      File("qt/QtCore", "QtCore",
           <<"#include <QtCore/qglobal.h>", "#include \"qhash.h\"", "#include \"qhash.h\"">>, TRUE),
      File("qt/QtCore", "QtCore", <<"#include \"qhash.h\"">>, FALSE),
      File("qt/QInternal", "QtCore", <<"#include \"qhash.h\" // not \"qmap.h\"">>, TRUE),
      File("qt/QtCore", "QInternal", <<"#include \"qinternal_p.h\"">>, TRUE),
      File("qt/QInternal", "QInternal", <<"#include \"qinternal_p.h\"">>, TRUE),
      File("qt/QtCore", "QHash", <<"#include \"qhash.h\"">>, TRUE),
      File("qt/QtCore", "qhash.h", <<"// We mean it.">>, TRUE),
      Directory("qt/QtCore", "private") }

\* the output_file argument
OutPaths == {"out/qt5.imp", "qt/QtCore/qt5.imp", "qt/QtCore/qhash.h"}

SeqsUpTo(S, n) == UNION {[1..k -> S] : k \in 0..n}

\* the entries of one directory follow each other in a listing, and no path is listed twice
WellFormed(t) ==
    /\ \A i, j \in 1..Len(t) : i # j => PathOf(t[i]) # PathOf(t[j])
    /\ \A i, j, k \in 1..Len(t) : (i < j /\ j < k /\ t[i].dir = t[k].dir) => t[j].dir = t[i].dir

Trees == {t \in SeqsUpTo(EntryPool, MaxFiles) : WellFormed(t)}

(***************************************************************************)
(* main                                                                    *)
(***************************************************************************)
\* two variants of Extend: the new rules put in front; a rule already listed not added
ExtendFront(list, items) == items \o list

RECURSIVE ExtendUnique(_, _)
ExtendUnique(list, items) ==
    IF items = <<>> THEN list
    ELSE ExtendUnique(IF Head(items) \in Range(list) THEN list ELSE Append(list, Head(items)),
                      Tail(items))

\* list += items
Extend(list, items) == list \o items

\* a faulty variant of IsExcluded: no header is left out
IsExcludedNever(h) == FALSE

\* header.classname == "QInternal"
IsExcluded(h) == classname(h) = "QInternal"

\* a faulty variant of IsDeferred: no header is put aside
IsDeferredNever(h) == FALSE

\* header.classname == header.modulename
IsDeferred(h) == classname(h) = modulename(h)

\* the manual overrides
ManualSymbols ==
    Extend(Extend(<<>>, << <<"qDebug", "QtGlobal">> >>),
           [i \in 1..Len(QOBJECT_SYMBOLS) |-> <<QOBJECT_SYMBOLS[i], "QObject">>])

ManualIncludes == Extend(<<>>, << <<"QtCore", "qnamespace", "Qt">> >>)

\* where a rule comes from: the manual overrides, or the header it was derived from
Manual == "manual"

Repeat(x, n) == [i \in 1..n |-> x]

\* add_mapping_rules(header, symbols_map, includes_map): the two lists after the call,
\* with whom each rule comes from, and the outcome of get_private_headers
add_mapping_rules(h, smap, imap, ssrc, isrc, priv, rd, t) ==
    LET r     == GetPrivateHeaders(h, priv, rd, t)
        rules == [i \in 1..Len(r.val) |-> <<modulename(h), r.val[i], classname(h)>>]
    IN  [smap |-> Extend(smap, << <<classname(h), classname(h)>> >>),
         ssrc |-> Extend(ssrc, <<h>>),
         imap |-> IF r.raised THEN imap ELSE Extend(imap, rules),
         isrc |-> IF r.raised THEN isrc ELSE Extend(isrc, Repeat(h, Len(rules))),
         r    |-> r]

\* the last call of get_private_headers: on which header, and its outcome
NoCall == [h |-> "", raised |-> FALSE, val |-> <<>>]

\* a new QtHeader instance, its _private_headers None
Construct(f, h, v) == [p \in DOMAIN f \cup {h} |-> IF p = h THEN v ELSE f[p]]

Init ==
    /\ tree \in Trees
    /\ out \in OutPaths
    /\ prev = Content(tree, out)
    /\ run = 1
    /\ pc = "start"
    /\ headers = <<>>
    /\ idx = 0
    /\ symbols_map = <<>>
    /\ includes_map = <<>>
    /\ sym_src = <<>>
    /\ inc_src = <<>>
    /\ deferred_headers = <<>>
    /\ private = <<>>
    /\ reads = <<>>
    /\ ret = NoCall
    /\ lines = <<>>

\* lines 129-139: the lists, the manual overrides, the glob
Start ==
    /\ pc = "start"
    /\ symbols_map' = ManualSymbols
    /\ includes_map' = ManualIncludes
    /\ sym_src' = Repeat(Manual, Len(ManualSymbols))
    /\ inc_src' = Repeat(Manual, Len(ManualIncludes))
    /\ deferred_headers' = <<>>
    /\ headers' = Glob(RootDir, tree)
    /\ idx' = 1
    /\ pc' = "scan"
    /\ UNCHANGED <<tree, out, prev, run, private, reads, ret, lines>>

\* lines 140-151: one iteration of the loop over the globbed paths
ScanStep ==
    /\ pc = "scan"
    /\ idx =< Len(headers)
    /\ LET h == headers[idx]
       IN  IF IsDir(tree, h)
           THEN /\ idx' = idx + 1
                /\ UNCHANGED <<pc, symbols_map, includes_map, sym_src, inc_src,
                               deferred_headers, private, reads, ret>>
           ELSE LET priv == Construct(private, h, None)
                    rd   == Construct(reads, h, 0)
                IN  IF IsExcluded(h)
                    THEN /\ idx' = idx + 1
                         /\ private' = priv
                         /\ reads' = rd
                         /\ UNCHANGED <<pc, symbols_map, includes_map, sym_src, inc_src,
                                        deferred_headers, ret>>
                    ELSE IF IsDeferred(h)
                    THEN /\ idx' = idx + 1
                         /\ private' = priv
                         /\ reads' = rd
                         /\ deferred_headers' = Append(deferred_headers, h)
                         /\ UNCHANGED <<pc, symbols_map, includes_map, sym_src, inc_src, ret>>
                    ELSE LET a == add_mapping_rules(h, symbols_map, includes_map,
                                                    sym_src, inc_src, priv, rd, tree)
                         IN  /\ symbols_map' = a.smap
                             /\ includes_map' = a.imap
                             /\ sym_src' = a.ssrc
                             /\ inc_src' = a.isrc
                             /\ private' = a.r.priv
                             /\ reads' = a.r.rd
                             /\ ret' = [h |-> h, raised |-> a.r.raised, val |-> a.r.val]
                             /\ pc' = IF a.r.raised THEN "read_error" ELSE pc
                             /\ idx' = IF a.r.raised THEN idx ELSE idx + 1
                             /\ UNCHANGED deferred_headers
    /\ UNCHANGED <<tree, out, prev, run, headers, lines>>

\* the loop of line 140 is over
ScanEnd ==
    /\ pc = "scan"
    /\ idx > Len(headers)
    /\ pc' = "deferred"
    /\ idx' = 1
    /\ UNCHANGED <<tree, out, prev, run, headers, symbols_map, includes_map, sym_src, inc_src,
                   deferred_headers, private, reads, ret, lines>>

\* lines 153-154: one iteration of the loop over the deferred headers
DeferredStep ==
    /\ pc = "deferred"
    /\ idx =< Len(deferred_headers)
    /\ LET a == add_mapping_rules(deferred_headers[idx], symbols_map, includes_map,
                                  sym_src, inc_src, private, reads, tree)
       IN  /\ symbols_map' = a.smap
           /\ includes_map' = a.imap
           /\ sym_src' = a.ssrc
           /\ inc_src' = a.isrc
           /\ private' = a.r.priv
           /\ reads' = a.r.rd
           /\ ret' = [h |-> deferred_headers[idx], raised |-> a.r.raised, val |-> a.r.val]
           /\ pc' = IF a.r.raised THEN "read_error" ELSE pc
           /\ idx' = IF a.r.raised THEN idx ELSE idx + 1
    /\ UNCHANGED <<tree, out, prev, run, headers, deferred_headers, lines>>

\* the loop of line 153 is over
DeferredEnd ==
    /\ pc = "deferred"
    /\ idx > Len(deferred_headers)
    /\ pc' = "write"
    /\ UNCHANGED <<tree, out, prev, run, headers, idx, symbols_map, includes_map, sym_src,
                   inc_src, deferred_headers, private, reads, ret, lines>>

\* line 157
Build ==
    /\ pc = "write"
    /\ lines' = build_imp_lines(symbols_map, includes_map)
    /\ pc' = "open"
    /\ UNCHANGED <<tree, out, prev, run, headers, idx, symbols_map, includes_map, sym_src,
                   inc_src, deferred_headers, private, reads, ret>>

\* a faulty variant of WriteMode: the file opened in mode 'a'
WriteModeAppend(old, printed) == old \o printed

\* open(output_file, 'w'): the old content is dropped
WriteMode(old, printed) == printed

\* open(output_file, 'w') raises: the path is a directory, or its directory is missing
CannotOpen(t, p) ==
    \/ IsDir(t, p)
    \/ ~Exists(t, p) /\ ~DirExists(t, Dirname(p))

InsertAt(t, k, e) == SubSeq(t, 1, k) \o <<e>> \o SubSeq(t, k + 1, Len(t))

\* the file systems in which the file at p holds the printed lines: an existing file
\* keeps its place in the listing, a new one appears anywhere among its directory's
Written(t, p, printed) ==
    IF Exists(t, p)
    THEN {[i \in 1..Len(t) |-> IF PathOf(t[i]) = p
                               THEN [t[i] EXCEPT !.text = WriteMode(@, printed)]
                               ELSE t[i]]}
    ELSE {u \in {InsertAt(t, k, File(Dirname(p), Basename(p), WriteMode(<<>>, printed), TRUE)) :
                    k \in 0..Len(t)} : WellFormed(u)}

\* lines 158-162
WriteOut ==
    /\ pc = "open"
    /\ IF CannotOpen(tree, out)
       THEN /\ pc' = "write_error"
            /\ tree' = tree
       ELSE /\ pc' = "done"
            /\ tree' \in Written(tree, out, Printed(lines))
    /\ UNCHANGED <<out, prev, run, headers, idx, symbols_map, includes_map, sym_src,
                   inc_src, deferred_headers, private, reads, ret, lines>>

Ended == pc \in {"done", "read_error", "write_error"}

\* main is invoked again, with the same arguments
Rerun ==
    /\ Ended
    /\ run < MaxRuns
    /\ run' = run + 1
    /\ prev' = Content(tree, out)
    /\ pc' = "start"
    /\ headers' = <<>>
    /\ idx' = 0
    /\ symbols_map' = <<>>
    /\ includes_map' = <<>>
    /\ sym_src' = <<>>
    /\ inc_src' = <<>>
    /\ deferred_headers' = <<>>
    /\ private' = <<>>
    /\ reads' = <<>>
    /\ ret' = NoCall
    /\ lines' = <<>>
    /\ UNCHANGED <<tree, out>>

Next ==
    \/ Start
    \/ ScanStep
    \/ ScanEnd
    \/ DeferredStep
    \/ DeferredEnd
    \/ Build
    \/ WriteOut
    \/ Rerun

Spec == Init /\ [][Next]_vars

(***************************************************************************)
(* One run of main, with get_private_headers called on the live instances  *)
(* any number of times besides the calls main makes.                       *)
(***************************************************************************)
Call(h) ==
    /\ pc \in {"scan", "deferred"}
    /\ h \in DOMAIN private
    /\ LET r == GetPrivateHeaders(h, private, reads, tree)
       IN  /\ private' = r.priv
           /\ reads' = r.rd
           /\ ret' = [h |-> h, raised |-> r.raised, val |-> r.val]
    /\ UNCHANGED <<tree, out, prev, run, pc, headers, idx, symbols_map, includes_map,
                   sym_src, inc_src, deferred_headers, lines>>

NextCalls ==
    \/ Start
    \/ ScanStep
    \/ ScanEnd
    \/ DeferredStep
    \/ DeferredEnd
    \/ Build
    \/ WriteOut
    \/ \E h \in DOMAIN private : Call(h)

SpecCalls == Init /\ [][NextCalls]_vars

(***************************************************************************)
(* build_imp_lines on its own, on rule lists of any strings.               *)
(***************************************************************************)
SymbolPool ==
    { <<"QHash", "QHash">>, <<"qDebug", "QtGlobal">>, <<"a\"b", "c\\d">>, <<"", "x>">> }

IncludePool ==
    { <<"QtCore", "qnamespace", "Qt">>,
      <<"QtCore", "private/qobject_p", "QObject">>,
      <<"Qt", "x/)?y", "Z">>,
      <<"Qt/)?x", "y", "Z">>,
      <<"", "qhash.h\" // not \"qmap", "QtCore">> }

InitSer ==
    /\ symbols_map \in SeqsUpTo(SymbolPool, MaxRules)
    /\ includes_map \in SeqsUpTo(IncludePool, MaxRules)
    /\ tree = <<>>
    /\ out = "out/qt5.imp"
    /\ prev = None
    /\ run = 1
    /\ pc = "write"
    /\ headers = <<>>
    /\ idx = 0
    /\ sym_src = <<>>
    /\ inc_src = <<>>
    /\ deferred_headers = <<>>
    /\ private = <<>>
    /\ reads = <<>>
    /\ ret = NoCall
    /\ lines = <<>>

NextSer == Build

SpecSer == InitSer /\ [][NextSer]_vars

(***************************************************************************)
(* Reading a rule file back: the array of single-key objects, and each     *)
(* record turned back into the rule it stands for.  These definitions are  *)
(* the reader the properties below speak of; the script has none.          *)
(***************************************************************************)
UnescapeChar(c) ==
    CASE c = "n" -> "\n"
      [] c = "t" -> "\t"
      [] OTHER   -> c

\* the JSON string whose opening quote precedes position j: its value and the
\* position after its closing quote, or None when it does not end
RECURSIVE ScanString(_, _, _)
ScanString(s, j, acc) ==
    IF j > Len(s) THEN None
    ELSE IF Ch(s, j) = "\"" THEN Some([val |-> acc, next |-> j + 1])
    ELSE IF Ch(s, j) = "\\" THEN
        IF j + 1 > Len(s) THEN None ELSE ScanString(s, j + 2, acc \o UnescapeChar(Ch(s, j + 1)))
    ELSE ScanString(s, j + 1, acc \o Ch(s, j))

ReadString(s, i) == IF StartsAt(s, i, "\"") THEN ScanString(s, i + 1, "") ELSE None

\* a line  {"key": ["a", "b", "c", "d"]}  read as <<key, a, b, c, d>>
ReadRecord(l) ==
    IF ~StartsAt(l, 1, "  {") THEN None
    ELSE LET k == ReadString(l, 4) IN
    IF k = None \/ ~StartsAt(l, k[1].next, ": [") THEN None
    ELSE LET a == ReadString(l, k[1].next + 3) IN
    IF a = None \/ ~StartsAt(l, a[1].next, ", ") THEN None
    ELSE LET b == ReadString(l, a[1].next + 2) IN
    IF b = None \/ ~StartsAt(l, b[1].next, ", ") THEN None
    ELSE LET c == ReadString(l, b[1].next + 2) IN
    IF c = None \/ ~StartsAt(l, c[1].next, ", ") THEN None
    ELSE LET d == ReadString(l, c[1].next + 2) IN
    IF d = None \/ SubSeq(l, d[1].next, Len(l)) # "]}" THEN None
    ELSE Some(<<k[1].val, a[1].val, b[1].val, c[1].val, d[1].val>>)

PatternHead == "@[\"<]("

PatternTail == "\\.h[\">]"

\* a record turned back into its rule, tagged with its kind: <<"symbol", symbol, header>>
\* or <<"include", module, include, header>>; the module of a pattern ends at the first "/)?"
ReadRule(l) ==
    LET r == ReadRecord(l) IN
    IF r = None THEN None
    ELSE LET rec == r[1]
             to  == rec[4]
         IN
    IF rec[3] # "private" \/ rec[5] # "public" \/ Len(to) < 2
       \/ Ch(to, 1) # "<" \/ Ch(to, Len(to)) # ">" THEN None
    ELSE LET header == SubSeq(to, 2, Len(to) - 1) IN
    IF rec[1] = "symbol" THEN Some(<<"symbol", rec[2], header>>)
    ELSE IF rec[1] = "include" /\ StartsAt(rec[2], 1, PatternHead) /\ EndsWith(rec[2], PatternTail)
            /\ Len(rec[2]) >= Len(PatternHead) + Len(PatternTail)
    THEN LET mid  == SubSeq(rec[2], Len(PatternHead) + 1, Len(rec[2]) - Len(PatternTail))
             seps == Occurrences(mid, "/)?")
         IN  IF seps = {} THEN None
             ELSE Some(<<"include", SubSeq(mid, 1, Min(seps) - 1),
                         SubSeq(mid, Min(seps) + 3, Len(mid)), header>>)
    ELSE None

StripComma(l) == IF EndsWith(l, ",") THEN SubSeq(l, 1, Len(l) - 1) ELSE l

\* the rules of a document "[", records separated by commas, "]"; None if it is not one
ReadDocument(doc) ==
    IF Len(doc) < 2 \/ doc[1] # "[" \/ doc[Len(doc)] # "]" THEN None
    ELSE IF Len(doc) = 3 /\ doc[2] = "" THEN Some(<<>>)
    ELSE LET n  == Len(doc) - 2
             rs == [i \in 1..n |-> ReadRule(IF i < n THEN StripComma(doc[i + 1]) ELSE doc[i + 1])]
         IN  IF \E i \in 1..n : rs[i] = None \/ (i < n /\ ~EndsWith(doc[i + 1], ","))
             THEN None
             ELSE Some([i \in 1..n |-> rs[i][1]])

\* the rules a pair of lists stands for, tagged with their kind, symbol rules first
Tagged(smap, imap) ==
    [i \in 1..Len(smap) |-> <<"symbol", smap[i][1], smap[i][2]>>]
    \o [i \in 1..Len(imap) |-> <<"include", imap[i][1], imap[i][2], imap[i][3]>>]

(***************************************************************************)
(* What the properties speak of.                                           *)
(***************************************************************************)
\* the headers main discovers: the globbed paths that are no directories
Discovered == {h \in Range(headers) : ~IsDir(tree, h)}

\* the lines of the file at the output path
OutText == IF Exists(tree, out) /\ ~IsDir(tree, out) THEN EntryAt(tree, out).text ELSE <<>>

\* how many records of the output file are the given line (the last has no comma)
Records(l) == Count(OutText, l) + Count(OutText, l \o ",")

\* the lines of a header when main read it: main writes no file but the output
TextAtScan(h) == IF h = out /\ prev # None THEN prev[1].text ELSE EntryAt(tree, h).text

IsHeaderSrc(src) == src # Manual

Umbrella(src) == IsHeaderSrc(src) /\ classname(src) = modulename(src)

Specific(src) == IsHeaderSrc(src) /\ classname(src) # modulename(src)

\* no rule of an umbrella header stands before a rule of another header in the list
DeferredLast(srcs) ==
    \A p, q \in 1..Len(srcs) : (p < q /\ Umbrella(srcs[p])) => ~Specific(srcs[q])

(***************************************************************************)
(* C1.  The rules of umbrella headers come last.                           *)
(***************************************************************************)
\* C1 as stated: in the output, symbol rules then include rules, no rule of a header
\* with classname = modulename stands before any rule of a header with classname #
\* modulename.
C1_DeferredAfterAll == pc = "done" => DeferredLast(sym_src \o inc_src)

\* C1 amended: within the symbol rules, and within the include rules, no rule of an
\* umbrella header stands before a rule of another header, at every point of main.
C1_DeferredAfterInList == DeferredLast(sym_src) /\ DeferredLast(inc_src)

C1_Witness ==
    /\ pc = "done"
    /\ Len(headers) = 2
    /\ Umbrella(headers[1])
    /\ Specific(headers[2])
    /\ \A h \in Range(headers) : h \in Range(sym_src) /\ h \in Range(inc_src)
    /\ OutText = Printed(lines)

(***************************************************************************)
(* C2.  The symbol rule of a header.                                       *)
(***************************************************************************)
OwnSymbolLine(h) == SymbolLine(<<classname(h), classname(h)>>)

\* C2 as stated: for every discovered header with classname # modulename the output
\* holds exactly one record of the symbol rule (classname, classname); the headers main
\* leaves out by name are not held against it.
C2_ExactlyOneSymbol ==
    pc = "done" =>
        \A h \in Discovered :
            (classname(h) # modulename(h) /\ classname(h) # "QInternal") =>
                Records(OwnSymbolLine(h)) = 1

\* C2 amended: for every discovered header with classname # modulename and classname #
\* "QInternal", the output holds one record of the symbol rule (classname, classname)
\* for each discovered header of that class name, in whatever module directory.
C2_OneSymbolPerHeader ==
    pc = "done" =>
        \A h \in Discovered :
            (classname(h) # modulename(h) /\ classname(h) # "QInternal") =>
                /\ Records(OwnSymbolLine(h)) >= 1
                /\ Records(OwnSymbolLine(h))
                     = Cardinality({g \in Discovered : classname(g) = classname(h)})

C2_Witness ==
    /\ pc = "done"
    /\ C2_OneSymbolPerHeader
    /\ \E h \in Discovered : classname(h) # modulename(h) /\ Records(OwnSymbolLine(h)) = 2
    /\ \E h \in Discovered : classname(h) # modulename(h) /\ Records(OwnSymbolLine(h)) = 1

(***************************************************************************)
(* C3.  The include rules of a header.                                     *)
(***************************************************************************)
OwnIncludeLine(h, n) == IncludeLine(<<modulename(h), n, classname(h)>>)

\* C3 as stated: for every discovered header and every name its text includes, the
\* output holds exactly one record of the include rule (modulename, name, classname);
\* the headers main leaves out by name are not held against it.
C3_ExactlyOneInclude ==
    pc = "done" =>
        \A h \in Discovered : classname(h) # "QInternal" =>
            \A n \in Range(FindAll(TextAtScan(h))) : Records(OwnIncludeLine(h, n)) = 1

\* C3 amended: for every discovered header but QInternal and every name the pattern
\* finds in its text, the output holds one record of the include rule for each time the
\* name is found, and one more when the rule is the manual (QtCore, qnamespace, Qt).
C3_OneIncludePerOccurrence ==
    pc = "done" =>
        \A h \in Discovered : classname(h) # "QInternal" =>
            \A n \in Range(FindAll(TextAtScan(h))) :
                Records(OwnIncludeLine(h, n))
                  = Count(FindAll(TextAtScan(h)), n)
                    + (IF <<modulename(h), n, classname(h)>> = <<"QtCore", "qnamespace", "Qt">>
                       THEN 1 ELSE 0)

C3_Witness ==
    /\ pc = "done"
    /\ C3_OneIncludePerOccurrence
    /\ "qt/QtCore/Qt" \in Discovered
    /\ Records(OwnIncludeLine("qt/QtCore/Qt", "qnamespace")) = 2
    /\ "qt/QtCore/QtCore" \in Discovered
    /\ Records(OwnIncludeLine("qt/QtCore/QtCore", "qhash")) = 2

(***************************************************************************)
(* C4.  The manual overrides come first.                                   *)
(***************************************************************************)
FirstSymbols ==
    << <<"qDebug", "QtGlobal">> >> \o [i \in 1..Len(QOBJECT_SYMBOLS) |-> <<QOBJECT_SYMBOLS[i], "QObject">>]

FirstIncludes == << <<"QtCore", "qnamespace", "Qt">> >>

\* the first lines of a rule file: the comment, the bracket, the manual symbol rules
FirstLines == <<OUTFILEHDR, "[">> \o [i \in 1..Len(FirstSymbols) |-> SymbolLine(FirstSymbols[i]) \o ","]

FirstIncludeLine == IncludeLine(FirstIncludes[1])

IsPrefix(a, b) == Len(a) =< Len(b) /\ SubSeq(b, 1, Len(a)) = a

\* C4: once main has put the manual overrides in, both lists start with them, in the
\* order of the table, every rule after them is derived from a header, and the file
\* main writes starts with them too.
C4_ManualFirst ==
    pc # "start" =>
        /\ IsPrefix(FirstSymbols, symbols_map)
        /\ IsPrefix(FirstIncludes, includes_map)
        /\ \A i \in 1..Len(sym_src) : (sym_src[i] = Manual) <=> (i =< Len(FirstSymbols))
        /\ \A i \in 1..Len(inc_src) : (inc_src[i] = Manual) <=> (i =< Len(FirstIncludes))
        /\ pc = "done" =>
             /\ IsPrefix(FirstLines, OutText)
             /\ StripComma(OutText[Len(symbols_map) + 3]) = FirstIncludeLine

C4_Witness ==
    /\ pc = "done"
    /\ Len(symbols_map) > Len(FirstSymbols) + 1
    /\ Len(includes_map) > Len(FirstIncludes) + 1
    /\ IsPrefix(FirstLines, OutText)

(***************************************************************************)
(* C5.  The catalog.                                                       *)
(***************************************************************************)
\* the files of the module directories whose name does not end in ".h"
NotDotH ==
    {PathOf(tree[i]) : i \in {j \in 1..Len(tree) :
        /\ Dirname(tree[j].dir) = RootDir
        /\ tree[j].kind = "file"
        /\ ~EndsWith(tree[j].name, ".h")}}

\* C5 as stated: the headers main examines are exactly the files of the module
\* directories whose name does not end in ".h".
C5_CatalogIsNotDotH == pc = "scan" => Discovered = NotDotH

(***************************************************************************)
(* C7.  Running main twice.                                                *)
(***************************************************************************)
\* C7 as stated: after a second run with the same arguments the output file holds
\* what it held after the first.
C7_SecondRunSame == (run > 1 /\ Ended) => Content(tree, out) = prev

\* C7 amended: after a second run with the same arguments the output file holds what
\* it held after the first, provided the output path is not one of the headers the
\* second run examines.
C7_SecondRunSameOutside == (run > 1 /\ Ended /\ out \notin Discovered) => Content(tree, out) = prev

C7_Witness ==
    /\ run > 1
    /\ pc = "done"
    /\ out = "qt/QtCore/qhash.h"
    /\ out \notin Discovered
    /\ Len(symbols_map) > Len(FirstSymbols) + 1
    /\ Content(tree, out) = prev

(***************************************************************************)
(* C8.  QInternal.                                                         *)
(***************************************************************************)
\* C8: no rule is derived from a header of class name QInternal, no such header is
\* deferred or read, and no rule of the lists or record of the output maps to <QInternal>.
C8_QInternalExcluded ==
    /\ \A i \in 1..Len(sym_src) : IsHeaderSrc(sym_src[i]) => classname(sym_src[i]) # "QInternal"
    /\ \A i \in 1..Len(inc_src) : IsHeaderSrc(inc_src[i]) => classname(inc_src[i]) # "QInternal"
    /\ \A i \in 1..Len(deferred_headers) : classname(deferred_headers[i]) # "QInternal"
    /\ \A h \in DOMAIN private : classname(h) = "QInternal" => (private[h] = None /\ reads[h] = 0)
    /\ \A i \in 1..Len(symbols_map) : symbols_map[i][2] # "QInternal"
    /\ \A i \in 1..Len(includes_map) : includes_map[i][3] # "QInternal"
    /\ pc = "done" => \A h \in Discovered : classname(h) = "QInternal" =>
            /\ Records(OwnSymbolLine(h)) = 0
            /\ \A n \in Range(FindAll(TextAtScan(h))) : Records(OwnIncludeLine(h, n)) = 0

C8_Witness ==
    /\ pc = "done"
    /\ run = 1
    /\ {"qt/QtCore/QInternal", "qt/QInternal/QInternal"} \subseteq DOMAIN private
    /\ FindAll(TextAtScan("qt/QInternal/QInternal")) # <<>>
    /\ OutText = Printed(lines)

(***************************************************************************)
(* C9.  A header that cannot be read.                                      *)
(***************************************************************************)
\* a discovered header main has to read cannot be opened
MustReadUnreadable ==
    \E h \in Discovered : classname(h) # "QInternal" /\ ~Readable(tree, h)

\* C9: when get_private_headers raises, main ends with the error and the output file is
\* what it was when main started; and main ends so whenever a header it has to read
\* cannot be opened.
C9_ReadErrorLeavesOutput ==
    /\ pc = "read_error" => (ret.raised /\ Content(tree, out) = prev)
    /\ (Ended /\ MustReadUnreadable) => (pc = "read_error" /\ Content(tree, out) = prev)

C9_Witness ==
    /\ pc = "read_error"
    /\ run = 1
    /\ ret.raised
    /\ ret.h \in Range(deferred_headers)
    /\ Len(symbols_map) > Len(FirstSymbols) + 1
    /\ Content(tree, out) = prev

(***************************************************************************)
(* C10.  The cache of get_private_headers.                                 *)
(***************************************************************************)
ReadAtMostOnce ==
    /\ \A h \in DOMAIN private :
          /\ reads[h] =< 1
          /\ private[h] # None => reads[h] = 1
    /\ (ret.h \in DOMAIN private /\ ~ret.raised) => private[ret.h] = Some(ret.val)

CacheKept ==
    \A h \in DOMAIN private \cap DOMAIN private' :
        private[h] # None => (private'[h] = private[h] /\ reads'[h] = reads[h])

\* C10: whatever calls are made on an instance, its file is read at most once; a call
\* returns the stored list; and once the list is stored, no call changes it or reads
\* the file again.
C10_ReadOnce == [](ReadAtMostOnce) /\ [][CacheKept]_vars

C10_Witness ==
    /\ pc = "scan"
    /\ Len(headers) = 2
    /\ idx > Len(headers)
    /\ ~IsDeferred(headers[2])
    /\ Range(headers) \subseteq DOMAIN private
    /\ private[headers[1]] = Some(<<>>)
    /\ private[headers[2]] # None
    /\ reads[headers[1]] = 1
    /\ ret.h = headers[1]
    /\ ~ret.raised

(***************************************************************************)
(* C6.  build_imp_lines and the reader.                                    *)
(***************************************************************************)
RoundTrip == ReadDocument(lines) = Some(Tagged(symbols_map, includes_map))

NoSeparatorInModules == \A i \in 1..Len(includes_map) : Occurrences(includes_map[i][1], "/)?") = {}

====
